---- MODULE Spec2Model ----
(***************************************************************************)
(* Model of src/app.py: the JSON-backed ConfigManager and the timer-driven *)
(* display state machine of WordCyclerApp (display_word, display_meaning,  *)
(* advance_word, pause, resume, update_config, set_words) on top of the    *)
(* Tk event loop's one-shot timers (after / after_cancel).                 *)
(*                                                                         *)
(* Time.  The code works with float milliseconds (time.time() * 1000) and  *)
(* hands whole milliseconds to Tk (int(...)).  The model counts time in    *)
(* units of 1/Sub ms, so a float millisecond value is an integer number of *)
(* units and int() is truncation to a multiple of Sub.  Deadlines are kept *)
(* relative to the current clock value: job_end_time holds                 *)
(* (deadline - now), and Tick(d) lowers it by the elapsed d.  The clock is *)
(* taken to be monotonic.                                                  *)
(***************************************************************************)
EXTENDS Integers, Sequences, FiniteSets, TLC

\* ------------------------------------------------------------------ bounds
\* clock resolution: units per millisecond
Sub == 2
\* longest word list handed to set_words
MaxWords == 2
\* the timer values (seconds) entered in the settings panel
TimerChoices == {1, 2}

\* seconds -> milliseconds factor used by display_word / display_meaning
MsPerSecond == 1000

\* ------------------------------------------------------- Python values
\* Optional values: None is the empty tuple, a value v is <<v>>.
None == <<>>
Some(v) == <<v>>

\* A Python / JSON value: t is the type tag, n the number (for a float the
\* value in tenths, for a bool 0 or 1), s the text of a str.
PyInt(k) == [t |-> "int", n |-> k, s |-> ""]
PyBool(b) == [t |-> "bool", n |-> IF b THEN 1 ELSE 0, s |-> ""]
PyFloat(tenths) == [t |-> "float", n |-> tenths, s |-> ""]
PyStr(txt) == [t |-> "str", n |-> 0, s |-> txt]
PyNone == [t |-> "none", n |-> 0, s |-> ""]
\* float("inf"), which json.load yields for a number such as 1e999
PyInf == [t |-> "inf", n |-> 0, s |-> ""]

\* The texts the model feeds to int(): what int(str) makes of each
\* (surrounding whitespace is ignored, anything else that is not an
\* optionally signed run of digits raises ValueError).
IntTexts == {"2", " 1 ", "0", "-1"}
BadTexts == {"", "abc", "2.7"}
IntOfText(txt) ==
    CASE txt = "2" -> 2
      [] txt = " 1 " -> 1
      [] txt = "0" -> 0
      [] txt = "-1" -> -1
      [] OTHER -> 0

\* int(x) for a float: truncation toward zero.
TruncTenths(k) == IF k >= 0 THEN k \div 10 ELSE -((-k) \div 10)

\* int(value) succeeds (no TypeError / ValueError)
IntOk(value) ==
    \/ value.t \in {"int", "bool", "float"}
    \/ value.t = "str" /\ value.s \in IntTexts

\* int(value), where it succeeds
IntOf(value) ==
    CASE value.t = "int" -> value.n
      [] value.t = "bool" -> value.n
      [] value.t = "float" -> TruncTenths(value.n)
      [] value.t = "str" -> IntOfText(value.s)
      [] OTHER -> 0

\* bool(value): Python truthiness
Truthy(value) ==
    CASE value.t \in {"int", "bool", "float"} -> value.n # 0
      [] value.t = "inf" -> TRUE
      [] value.t = "str" -> value.s # ""
      [] OTHER -> FALSE

\* ------------------------------------------------------- ConfigManager
DEFAULT_CONFIG ==
    [showMeaningTimer |-> 3, nextWordTimer |-> 5, alwaysOnTop |-> TRUE]

parse_positive_int_nocheck(value, fallback) ==
    IF ~IntOk(value) THEN fallback ELSE IntOf(value)

parse_positive_int(value, fallback) ==
    IF ~IntOk(value) THEN fallback
    ELSE IF IntOf(value) > 0 THEN IntOf(value) ELSE fallback

\* parse_positive_int(value, ...) raises: int() of an infinite float raises
\* OverflowError, which the except clause (TypeError, ValueError) lets pass.
parse_positive_int_raises(value) == value.t = "inf"

\* The content of config.json: kind "missing" (no file), "unreadable" (open
\* raises OSError), "undecodable" (bytes that are not UTF-8), "corrupt" (text
\* that is not JSON), "nondict" (JSON, but not an object) or "dict"; for a
\* dict the three fields hold the value under each key, PyNone standing for
\* an absent key as raw.get(key) returns None for it.
NoFile == [kind |-> "missing", showMeaningTimer |-> PyNone,
           nextWordTimer |-> PyNone, alwaysOnTop |-> PyNone]
CorruptFile == [NoFile EXCEPT !.kind = "corrupt"]
UnreadableFile == [NoFile EXCEPT !.kind = "unreadable"]
UndecodableFile == [NoFile EXCEPT !.kind = "undecodable"]
NonDictFile == [NoFile EXCEPT !.kind = "nondict"]
DictFile(a, b, c) ==
    [kind |-> "dict", showMeaningTimer |-> a, nextWordTimer |-> b,
     alwaysOnTop |-> c]

\* json.dump(self.data, ...): the file a config record is written as
Dump(data) ==
    DictFile(PyInt(data.showMeaningTimer), PyInt(data.nextWordTimer),
             PyBool(data.alwaysOnTop))

_merge_with_defaults(raw) ==
    IF raw.kind = "dict"
    THEN [showMeaningTimer |->
              parse_positive_int(raw.showMeaningTimer,
                                 DEFAULT_CONFIG.showMeaningTimer),
          nextWordTimer |->
              parse_positive_int(raw.nextWordTimer,
                                 DEFAULT_CONFIG.nextWordTimer),
          alwaysOnTop |->
              IF raw.alwaysOnTop.t = "bool" THEN raw.alwaysOnTop.n = 1
              ELSE DEFAULT_CONFIG.alwaysOnTop]
    ELSE DEFAULT_CONFIG

\* _merge_with_defaults(raw) raises (one of its parse_positive_int calls does)
_merge_with_defaults_raises(raw) ==
    /\ raw.kind = "dict"
    /\ \/ parse_positive_int_raises(raw.showMeaningTimer)
       \/ parse_positive_int_raises(raw.nextWordTimer)

\* What becomes of a file that is opened with mode "w" and written: with
\* outcome "ok" it holds the new content, with "denied" open() raises OSError
\* and the file is as before, with "torn" open() has truncated the file and
\* the write raises OSError, leaving the incomplete text torn.
WriteOutcomes == {"ok", "denied", "torn"}
Write(w, old, new, torn) ==
    IF w = "ok" THEN new ELSE IF w = "denied" THEN old ELSE torn

\* A ConfigManager is the record [data, file, exc]: self.data, the content
\* of config.json, and the exception the call let escape (or None).
\* save(data): the argument is None or Some(raw); self.data is set first,
\* then the file is rewritten with it, with outcome w.
ConfigSave(cm, arg, w) ==
    IF arg # None /\ _merge_with_defaults_raises(arg[1])
    THEN [cm EXCEPT !.exc = Some("OverflowError")]
    ELSE LET merged == IF arg # None THEN _merge_with_defaults(arg[1])
                       ELSE cm.data
         IN  [data |-> merged,
              file |-> Write(w, cm.file, Dump(merged), CorruptFile),
              exc |-> IF w = "ok" THEN None ELSE Some("OSError")]

\* ConfigManager(path): self.data = self._load().  When _load raises there
\* is no ConfigManager; data then holds DEFAULT_CONFIG as a placeholder.
ConfigLoad(file, w) ==
    LET fresh == [data |-> DEFAULT_CONFIG, file |-> file, exc |-> None]
    IN  IF file.kind \in {"missing", "unreadable", "corrupt"}
        THEN ConfigSave(fresh, Some(Dump(DEFAULT_CONFIG)), w)
        ELSE IF file.kind = "undecodable"
        THEN [fresh EXCEPT !.exc = Some("UnicodeDecodeError")]
        ELSE IF _merge_with_defaults_raises(file)
        THEN [fresh EXCEPT !.exc = Some("OverflowError")]
        ELSE [fresh EXCEPT !.data = _merge_with_defaults(file)]

\* update(): the three assignments in order, then save(); an assignment
\* whose parse_positive_int raises ends the call.
ConfigUpdate(cm, show_meaning_timer, next_word_timer, always_on_top, w) ==
    IF parse_positive_int_raises(show_meaning_timer)
    THEN [cm EXCEPT !.exc = Some("OverflowError")]
    ELSE LET d1 == [cm.data EXCEPT !.showMeaningTimer =
                        parse_positive_int(show_meaning_timer,
                                           DEFAULT_CONFIG.showMeaningTimer)]
         IN  IF parse_positive_int_raises(next_word_timer)
             THEN [cm EXCEPT !.data = d1, !.exc = Some("OverflowError")]
             ELSE LET d == [d1 EXCEPT
                              !.nextWordTimer =
                                  parse_positive_int(
                                      next_word_timer,
                                      DEFAULT_CONFIG.nextWordTimer),
                              !.alwaysOnTop = Truthy(always_on_top)]
                  IN  ConfigSave([cm EXCEPT !.data = d, !.exc = None],
                                 None, w)

\* ------------------------------------------------------------ word lists
\* Validated word entries (all three fields non-empty).
Entries ==
    {[word |-> "w1", reading |-> "r1", meaning |-> "m1"],
     [word |-> "w2", reading |-> "r2", meaning |-> "m2"]}

\* The lists set_words can be handed: the cleaned, non-empty list of a
\* word-list save or import, or the settings window's working copy that a
\* failed import restores (SettingsWindow._import_words, which may be empty).
WordLists == UNION {[1..n -> Entries] : n \in 0..MaxWords}

\* The outcomes of random.shuffle(list): every ordering of its items.
Shuffles(list) ==
    LET n == Len(list)
        Bij == {f \in [1..n -> 1..n] : \A i, j \in 1..n : f[i] = f[j] => i = j}
    IN  {[i \in 1..n |-> list[f[i]]] : f \in Bij}

\* ------------------------------------------------------------ word files
\* most records (JSON array elements, CSV data rows) in an input file
MaxItems == 2

\* The texts the model puts in word files, and text.strip() of each.
Strip(txt) ==
    CASE txt = " " -> ""
      [] txt = " w1 " -> "w1"
      [] txt = " r1 " -> "r1"
      [] txt = " m1 " -> "m1"
      [] OTHER -> txt

\* A key that a JSON object does not have.
Absent == [t |-> "absent", n |-> 0, s |-> ""]

\* str(item.get(key, "")): the default "" for an absent key, str(None) for
\* a null (or for the cell a short CSV row lacks), the text of a string.
StrOf(v) ==
    CASE v.t = "absent" -> ""
      [] v.t = "none" -> "None"
      [] v.t = "str" -> v.s
      [] v.t = "int" -> IF v.n = 5 THEN "5" ELSE "int"
      [] OTHER -> "obj"

\* An element of the JSON array (or a row dict built from a CSV row): obj
\* says whether it is a JSON object, the fields hold what is under the keys.
Obj(w, r, mn) == [obj |-> TRUE, word |-> w, reading |-> r, meaning |-> mn]
NonObj == [obj |-> FALSE, word |-> Absent, reading |-> Absent,
           meaning |-> Absent]

\* A loader's outcome: the list it returns, or the exception it raises.
Returns(list) == [kind |-> "list", list |-> list, exc |-> ""]
Raises(exc) == [kind |-> "raise", list |-> <<>>, exc |-> exc]

\* except ValueError / except OSError also catch these subclasses
IsValueError(exc) == exc \in {"ValueError", "UnicodeDecodeError"}
IsOSError(exc) == exc \in {"OSError", "FileNotFoundError", "PermissionError"}

CleanEntry(item) ==
    [word |-> Strip(StrOf(item.word)),
     reading |-> Strip(StrOf(item.reading)),
     meaning |-> Strip(StrOf(item.meaning))]

\* the loop body's test: a dict whose three stripped texts are non-empty
Kept(item) ==
    /\ item.obj
    /\ CleanEntry(item).word # ""
    /\ CleanEntry(item).reading # ""
    /\ CleanEntry(item).meaning # ""

\* variant: an empty result is returned instead of raising
_clean_word_entries_empty(raw_entries) ==
    LET kept == SelectSeq(raw_entries, Kept)
    IN  Returns([i \in 1..Len(kept) |-> CleanEntry(kept[i])])

_clean_word_entries(raw_entries) ==
    LET kept == SelectSeq(raw_entries, Kept)
        cleaned == [i \in 1..Len(kept) |-> CleanEntry(kept[i])]
    IN  IF cleaned = <<>> THEN Raises("ValueError") ELSE Returns(cleaned)

\* A JSON file: kind "missing", "unreadable" (open raises an OSError that is
\* not FileNotFoundError), "undecodable" (not UTF-8), "badjson", "nonarray"
\* (JSON, top level not a list) or "array" with its elements.
JsonFile(kind) == [fmt |-> "json", kind |-> kind, items |-> <<>>]
JsonArray(items) == [fmt |-> "json", kind |-> "array", items |-> items]

load_words(file) ==
    CASE file.kind = "missing" -> Raises("FileNotFoundError")
      [] file.kind = "unreadable" -> Raises("PermissionError")
      [] file.kind = "undecodable" -> Raises("UnicodeDecodeError")
      [] file.kind = "badjson" -> Raises("ValueError")
      [] file.kind = "nonarray" -> Raises("ValueError")
      [] OTHER -> _clean_word_entries(file.items)

\* A CSV column name is a sequence of pieces: "bom" (U+FEFF), "sp" (a
\* blank) or a word in some letter case.
LowerPiece(c) ==
    CASE c \in {"word", "Word", "WORD"} -> "word"
      [] c \in {"reading", "Reading"} -> "reading"
      [] c \in {"meaning", "Meaning"} -> "meaning"
      [] OTHER -> c
\* name.lower()
Lower(name) == [i \in 1..Len(name) |-> LowerPiece(name[i])]
\* name.lstrip(c): every leading c is dropped
RECURSIVE LStrip(_, _)
LStrip(name, c) ==
    IF name # <<>> /\ Head(name) = c THEN LStrip(Tail(name), c) ELSE name
RECURSIVE RStrip(_, _)
RStrip(name, c) ==
    IF name # <<>> /\ name[Len(name)] = c
    THEN RStrip(SubSeq(name, 1, Len(name) - 1), c) ELSE name
\* name.strip(): U+FEFF is not white space, only the blanks go
StripName(name) == RStrip(LStrip(name, "sp"), "sp")
\* name.strip().lstrip("\ufeff").lower()
Normalized(name) == Lower(LStrip(StripName(name), "bom"))

\* header_map: the positions of the columns filed under key; a later
\* column of the same normalized name replaces an earlier one.
HeaderPositions(header, key) ==
    {p \in 1..Len(header) : header[p] # <<>> /\ Normalized(header[p]) = <<key>>}
InHeaderMap(header, key) == HeaderPositions(header, key) # {}
HeaderName(header, key) ==
    header[CHOOSE p \in HeaderPositions(header, key) :
               \A q \in HeaderPositions(header, key) : q <= p]

\* row.get(name, "") on the dict csv.DictReader builds for a row: the cell
\* under the last column called name, or None (restval) when the row is too
\* short to have a cell under every column called name.
RowGet(header, row, name) ==
    LET at == {p \in 1..Len(header) : header[p] = name}
    IN  IF \E p \in at : p > Len(row) THEN PyNone
        ELSE PyStr(row[CHOOSE p \in at : \A q \in at : q <= p])

\* A CSV file: kind "missing", "unreadable", "undecodable", "csverror" or
\* "table" with the cells of its header row (<<>>: the file has no row) and
\* of its data rows.
CsvFile(kind) == [fmt |-> "csv", kind |-> kind, header |-> <<>>, rows |-> <<>>]
CsvTable(header, rows) ==
    [fmt |-> "csv", kind |-> "table", header |-> header, rows |-> rows]

load_words_from_csv(file) ==
    CASE file.kind = "missing" -> Raises("FileNotFoundError")
      [] file.kind = "unreadable" -> Raises("OSError")
      [] file.kind = "undecodable" -> Raises("ValueError")
      [] file.kind = "csverror" -> Raises("ValueError")
      [] OTHER ->
           IF file.header = <<>> THEN Raises("ValueError")
           ELSE IF \E key \in {"word", "reading", "meaning"} :
                       ~InHeaderMap(file.header, key)
           THEN Raises("ValueError")
           ELSE LET h == file.header
                    \* DictReader skips the rows without cells
                    data == SelectSeq(file.rows, LAMBDA row : row # <<>>)
                    rows == [i \in 1..Len(data) |->
                               Obj(RowGet(h, data[i], HeaderName(h, "word")),
                                   RowGet(h, data[i], HeaderName(h, "reading")),
                                   RowGet(h, data[i], HeaderName(h, "meaning")))]
                IN  _clean_word_entries(rows)

\* json.dump(words, ...) of save_words: the file a list of entries becomes
DumpWords(list) ==
    JsonArray([i \in 1..Len(list) |->
                  Obj(PyStr(list[i].word), PyStr(list[i].reading),
                      PyStr(list[i].meaning))])

\* save_words(path, words), with the outcome w of the write
save_words(file, list, w) ==
    Write(w, file, DumpWords(list), JsonFile("badjson"))

\* The label shown for an empty word list.
NoWordsText == "no words"
PauseLabel == "pause"
ResumeLabel == "resume"

\* ------------------------------------------------------------ state
VARIABLES
    config_data,     \* ConfigManager.data
    config_file,     \* content of config.json
    word_bank,       \* WordCyclerApp.word_bank
    words,           \* WordCyclerApp.words (the display list)
    current_index,   \* WordCyclerApp.current_index (0-based)
    word_var, reading_var, meaning_var,   \* the displayed texts
    paused,          \* WordCyclerApp.paused
    pause_button,    \* text of the pause button
    current_job,     \* id of the armed Tk timer, or None
    job_callback,    \* name of the stored callback, or None
    remaining_ms,    \* stored remaining delay (units), or None
    job_end_time,    \* deadline - now (units), or None
    timers,          \* Tk's armed one-shot timers: {[id, left]}
    words_file,      \* content of words.json
    words_data,      \* SettingsWindow.words_data, None while it is closed
    raised,          \* history: the exception the handler let escape
    given,           \* history: the input the operation was given
    loaded,          \* history: what the word loader returned or raised
    op,              \* history: the handler that ran last
    ran,             \* history: the methods that handler called, in order
    noop,            \* history: the handler returned at its first guard
    sched_delay,     \* history: delay of the last _schedule_after (units)
    waited           \* history: un-paused time waited since then (units)

vars == <<config_data, config_file, word_bank, words, current_index,
          word_var, reading_var, meaning_var, paused, pause_button,
          current_job, job_callback, remaining_ms, job_end_time, timers,
          words_file, words_data, raised, given, loaded,
          op, ran, noop, sched_delay, waited>>

\* the program's own state, without the history variables
progvars == <<config_data, config_file, word_bank, words, current_index,
              word_var, reading_var, meaning_var, paused, pause_button,
              current_job, job_callback, remaining_ms, job_end_time, timers,
              words_file, words_data>>

\* The current state as one record, which the methods below transform.
St ==
    [config_data |-> config_data, config_file |-> config_file,
     word_bank |-> word_bank, words |-> words,
     current_index |-> current_index, word_var |-> word_var,
     reading_var |-> reading_var, meaning_var |-> meaning_var,
     paused |-> paused, pause_button |-> pause_button,
     current_job |-> current_job, job_callback |-> job_callback,
     remaining_ms |-> remaining_ms, job_end_time |-> job_end_time,
     timers |-> timers, words_file |-> words_file,
     words_data |-> words_data, raised |-> raised, given |-> given,
     loaded |-> loaded, op |-> op, ran |-> ran, noop |-> noop,
     sched_delay |-> sched_delay, waited |-> waited]

\* The next state is the record s.
Becomes(s) ==
  \E r \in {s} :
    /\ config_data' = r.config_data
    /\ config_file' = r.config_file
    /\ word_bank' = r.word_bank
    /\ words' = r.words
    /\ current_index' = r.current_index
    /\ word_var' = r.word_var
    /\ reading_var' = r.reading_var
    /\ meaning_var' = r.meaning_var
    /\ paused' = r.paused
    /\ pause_button' = r.pause_button
    /\ current_job' = r.current_job
    /\ job_callback' = r.job_callback
    /\ remaining_ms' = r.remaining_ms
    /\ job_end_time' = r.job_end_time
    /\ timers' = r.timers
    /\ words_file' = r.words_file
    /\ words_data' = r.words_data
    /\ raised' = r.raised
    /\ given' = r.given
    /\ loaded' = r.loaded
    /\ op' = r.op
    /\ ran' = r.ran
    /\ noop' = r.noop
    /\ sched_delay' = r.sched_delay
    /\ waited' = r.waited

\* A handler starts: the history of the previous one is dropped.
Enter(s, name) ==
    [s EXCEPT !.op = name, !.ran = <<>>, !.noop = FALSE, !.raised = None,
              !.given = None, !.loaded = None]
Ran(s, name) == [s EXCEPT !.ran = Append(@, name)]

\* ------------------------------------------------------------ Tk timers
\* int(x) of a float millisecond value: whole milliseconds.
IntMs(x) == (x \div Sub) * Sub
Max0(x) == IF x > 0 THEN x ELSE 0

\* root.after(delay, self._execute_job): arms a timer under a fresh id.
FreshId(tm) ==
    CHOOSE i \in 1..(Cardinality(tm) + 1) :
        /\ \A t \in tm : t.id # i
        /\ \A j \in 1..(i - 1) : \E t \in tm : t.id = j
After(tm, delay) == tm \cup {[id |-> FreshId(tm), left |-> delay]}
\* root.after_cancel(id): the timer is dropped and will not fire.
AfterCancel(tm, id) == {t \in tm : t.id # id}

\* ------------------------------------------------------------ scheduler
_clear_job_nocancel(s) ==
    [s EXCEPT !.current_job = None, !.job_callback = None,
              !.remaining_ms = None, !.job_end_time = None]

_clear_job(s) ==
    [s EXCEPT !.timers = IF s.current_job # None
                         THEN AfterCancel(@, s.current_job[1]) ELSE @,
              !.current_job = None, !.job_callback = None,
              !.remaining_ms = None, !.job_end_time = None]

_schedule_after(s0, delay_ms, callback) ==
    LET s == _clear_job(s0)
        s1 == [s EXCEPT !.job_callback = Some(callback),
                        !.remaining_ms = Some(delay_ms),
                        !.sched_delay = delay_ms, !.waited = 0]
    IN  IF ~s1.paused
        THEN [s1 EXCEPT !.job_end_time = Some(delay_ms),
                        !.current_job = Some(FreshId(s1.timers)),
                        !.timers = After(@, delay_ms)]
        ELSE [s1 EXCEPT !.job_end_time = None]

\* variant: arms the next-word callback instead of the reveal
display_word_skip(s0) ==
    LET s == Ran(s0, "display_word")
    IN  IF s.words = <<>>
        THEN [s EXCEPT !.word_var = NoWordsText, !.reading_var = "",
                       !.meaning_var = ""]
        ELSE LET entry == s.words[s.current_index + 1]
             IN  _schedule_after(
                     [s EXCEPT !.word_var = entry.word, !.reading_var = "",
                               !.meaning_var = ""],
                     s.config_data.showMeaningTimer * MsPerSecond * Sub,
                     "advance_word")

display_word(s0) ==
    LET s == Ran(s0, "display_word")
    IN  IF s.words = <<>>
        THEN [s EXCEPT !.word_var = NoWordsText, !.reading_var = "",
                       !.meaning_var = ""]
        ELSE LET entry == s.words[s.current_index + 1]
             IN  _schedule_after(
                     [s EXCEPT !.word_var = entry.word, !.reading_var = "",
                               !.meaning_var = ""],
                     s.config_data.showMeaningTimer * MsPerSecond * Sub,
                     "display_meaning")

\* words[current_index] raises IndexError outside the list: the handler
\* ends there, which "IndexError" in ran records.
display_meaning(s0) ==
    LET s == Ran(s0, "display_meaning")
    IN  IF s.current_index >= Len(s.words)
        THEN Ran(s, "IndexError")
        ELSE LET entry == s.words[s.current_index + 1]
             IN  _schedule_after(
                     [s EXCEPT !.reading_var = entry.reading,
                               !.meaning_var = entry.meaning],
                     s.config_data.nextWordTimer * MsPerSecond * Sub,
                     "advance_word")

\* variant: the list is never reshuffled
advance_word_noshuffle(s0, shuffled) ==
    LET s == Ran(s0, "advance_word")
    IN  IF s.words = <<>> THEN s
        ELSE LET i == (s.current_index + 1) % Len(s.words)
             IN  display_word([s EXCEPT !.current_index = i])

\* variant: the display list is the word bank itself, shuffled in place
advance_word_alias(s0, shuffled) ==
    LET s == Ran(s0, "advance_word")
    IN  IF s.words = <<>> THEN s
        ELSE LET i == (s.current_index + 1) % Len(s.words)
                 s1 == [s EXCEPT !.current_index = i]
                 s2 == IF i = 0
                       THEN Ran([s1 EXCEPT !.words = shuffled,
                                           !.word_bank = shuffled],
                                "shuffle")
                       ELSE s1
             IN  display_word(s2)

\* variant: the list is reshuffled after the word has been displayed
advance_word_late(s0, shuffled) ==
    LET s == Ran(s0, "advance_word")
    IN  IF s.words = <<>> THEN s
        ELSE LET i == (s.current_index + 1) % Len(s.words)
                 s1 == display_word([s EXCEPT !.current_index = i])
             IN  IF i = 0
                 THEN Ran([s1 EXCEPT !.words = shuffled], "shuffle")
                 ELSE s1

\* shuffled: what random.shuffle(self.words) yields if it is called.
advance_word(s0, shuffled) ==
    LET s == Ran(s0, "advance_word")
    IN  IF s.words = <<>> THEN s
        ELSE LET i == (s.current_index + 1) % Len(s.words)
                 s1 == [s EXCEPT !.current_index = i]
                 s2 == IF i = 0
                       THEN Ran([s1 EXCEPT !.words = shuffled], "shuffle")
                       ELSE s1
             IN  display_word(s2)

\* callback(): the stored bound method is called
Call(s, callback, shuffled) ==
    IF callback = "display_meaning" THEN display_meaning(s)
    ELSE advance_word(s, shuffled)

\* variant: re-arms with the full delay of the phase
_resume_schedule_full(s, shuffled) ==
    IF s.job_callback = None \/ s.remaining_ms = None THEN s
    ELSE LET delay == IntMs(Max0(s.sched_delay))
         IN  IF delay <= 0
             THEN Call([s EXCEPT !.job_callback = None,
                                 !.remaining_ms = None,
                                 !.job_end_time = None],
                       s.job_callback[1], shuffled)
             ELSE [s EXCEPT !.job_end_time = Some(delay),
                            !.current_job = Some(FreshId(s.timers)),
                            !.timers = After(@, delay)]

\* variant: always re-arms, also with a delay of 0
_resume_schedule_rearm(s, shuffled) ==
    IF s.job_callback = None \/ s.remaining_ms = None THEN s
    ELSE LET delay == IntMs(Max0(s.remaining_ms[1]))
         IN  [s EXCEPT !.job_end_time = Some(delay),
                       !.current_job = Some(FreshId(s.timers)),
                       !.timers = After(@, delay)]

_resume_schedule(s, shuffled) ==
    IF s.job_callback = None \/ s.remaining_ms = None THEN s
    ELSE LET delay == IntMs(Max0(s.remaining_ms[1]))
         IN  IF delay <= 0
             THEN Call([s EXCEPT !.job_callback = None,
                                 !.remaining_ms = None,
                                 !.job_end_time = None],
                       s.job_callback[1], shuffled)
             ELSE [s EXCEPT !.job_end_time = Some(delay),
                            !.current_job = Some(FreshId(s.timers)),
                            !.timers = After(@, delay)]

\* variant: the stored callback is dropped instead of called
_execute_job_drop(s, shuffled) ==
    [Ran(s, "_execute_job") EXCEPT
        !.current_job = None, !.job_callback = None,
        !.remaining_ms = None, !.job_end_time = None]

_execute_job(s, shuffled) ==
    LET s1 == [Ran(s, "_execute_job") EXCEPT
                   !.current_job = None, !.job_callback = None,
                   !.remaining_ms = None, !.job_end_time = None]
    IN  IF s.job_callback # None
        THEN Call(s1, s.job_callback[1], shuffled)
        ELSE s1

\* variant: no early return, the remaining time is recomputed on every call
pause_noguard(s0) ==
    LET s == [Enter(s0, "pause") EXCEPT !.noop = s0.paused]
        c == [s EXCEPT !.paused = TRUE,
                       !.timers = IF s.current_job # None
                                  THEN AfterCancel(@, s.current_job[1])
                                  ELSE @,
                       !.current_job = None]
    IN  [c EXCEPT !.remaining_ms =
                      Some(Max0(IF c.job_end_time # None
                                THEN c.job_end_time[1] ELSE 0)),
                  !.job_end_time = None,
                  !.pause_button = ResumeLabel]

pause(s0) ==
    LET s == Enter(s0, "pause")
    IN  IF s.paused THEN [s EXCEPT !.noop = TRUE]
        ELSE LET s1 == [s EXCEPT !.paused = TRUE]
                 s2 == IF s1.current_job # None
                       THEN LET c == [s1 EXCEPT
                                        !.timers =
                                            AfterCancel(@, s1.current_job[1]),
                                        !.current_job = None]
                            IN  IF c.job_end_time # None
                                THEN [c EXCEPT
                                        !.remaining_ms =
                                            Some(Max0(c.job_end_time[1])),
                                        !.job_end_time = None]
                                ELSE c
                       ELSE s1
             IN  [s2 EXCEPT !.pause_button = ResumeLabel]

\* variant: the flag is cleared, the stored callback is not scheduled
resume_norearm(s0, shuffled) ==
    LET s == Enter(s0, "resume")
    IN  IF ~s.paused THEN [s EXCEPT !.noop = TRUE]
        ELSE [s EXCEPT !.paused = FALSE, !.pause_button = PauseLabel]

resume(s0, shuffled) ==
    LET s == Enter(s0, "resume")
    IN  IF ~s.paused THEN [s EXCEPT !.noop = TRUE]
        ELSE _resume_schedule(
                 [s EXCEPT !.paused = FALSE, !.pause_button = PauseLabel],
                 shuffled)

\* variant: the running phase is kept, display_word is not called
update_config_keep(s, show_meaning_timer, next_word_timer, always_on_top, w) ==
    LET cm == ConfigUpdate([data |-> s.config_data, file |-> s.config_file,
                            exc |-> None],
                           show_meaning_timer, next_word_timer, always_on_top,
                           w)
    IN  [s EXCEPT !.config_data = cm.data, !.config_file = cm.file,
                  !.raised = cm.exc]

\* w: the outcome of writing config.json.  An exception of
\* config_manager.update ends the method at its first line.
update_config(s, show_meaning_timer, next_word_timer, always_on_top, w) ==
    LET cm == ConfigUpdate([data |-> s.config_data, file |-> s.config_file,
                            exc |-> None],
                           show_meaning_timer, next_word_timer, always_on_top,
                           w)
        s1 == [s EXCEPT !.config_data = cm.data, !.config_file = cm.file,
                        !.raised = cm.exc]
        was_paused == s1.paused
        s2 == display_word(_clear_job(s1))
    IN  IF cm.exc # None THEN s1
        ELSE IF was_paused
        THEN [s2 EXCEPT !.paused = TRUE, !.pause_button = ResumeLabel]
        ELSE s2

\* variant: the pending job is left to display_word to replace
set_words_noclear(s0, list, shuffled) ==
    LET s == Ran(s0, "set_words")
        s1 == [s EXCEPT !.word_bank = list,
                        !.words = IF list # <<>> THEN shuffled ELSE list,
                        !.current_index = 0]
        was_paused == s1.paused
        s2 == display_word(s1)
    IN  IF was_paused
        THEN [s2 EXCEPT !.paused = TRUE, !.pause_button = ResumeLabel]
        ELSE s2

set_words(s0, list, shuffled) ==
    LET s == Ran(s0, "set_words")
        s1 == [s EXCEPT !.word_bank = list,
                        !.words = IF list # <<>> THEN shuffled ELSE list,
                        !.current_index = 0]
        was_paused == s1.paused
        s2 == display_word(_clear_job(s1))
    IN  IF was_paused
        THEN [s2 EXCEPT !.paused = TRUE, !.pause_button = ResumeLabel]
        ELSE s2

\* ------------------------------------------------------------ start-up
\* config.json as the program may find it at start-up.
InitFiles == {DictFile(PyInt(2), PyInt(1), PyBool(TRUE))}

\* Spec and CfgSpec do not follow the content of words.json: set_words does
\* not write it, and save_words, which does, is an action of PanelSpec.
NotFollowed == JsonFile("notfollowed")

\* WordCyclerApp.__init__ before its closing set_words call, for a
\* ConfigManager cm and the word list main() loaded from the words.json
\* with content file.
Constructed(cm, list, file) ==
    [config_data |-> cm.data, config_file |-> cm.file,
     word_bank |-> list, words |-> <<>>, current_index |-> 0,
     word_var |-> "", reading_var |-> "", meaning_var |-> "",
     paused |-> FALSE, pause_button |-> PauseLabel,
     current_job |-> None, job_callback |-> None,
     remaining_ms |-> None, job_end_time |-> None, timers |-> {},
     words_file |-> file, words_data |-> None,
     raised |-> cm.exc, given |-> None, loaded |-> None,
     op |-> "__init__", ran |-> <<>>, noop |-> FALSE,
     sched_delay |-> 0, waited |-> 0]

\* The state is the record s.
Is(s) ==
  \E r \in {s} :
    /\ config_data = r.config_data
    /\ config_file = r.config_file
    /\ word_bank = r.word_bank
    /\ words = r.words
    /\ current_index = r.current_index
    /\ word_var = r.word_var
    /\ reading_var = r.reading_var
    /\ meaning_var = r.meaning_var
    /\ paused = r.paused
    /\ pause_button = r.pause_button
    /\ current_job = r.current_job
    /\ job_callback = r.job_callback
    /\ remaining_ms = r.remaining_ms
    /\ job_end_time = r.job_end_time
    /\ timers = r.timers
    /\ words_file = r.words_file
    /\ words_data = r.words_data
    /\ raised = r.raised
    /\ given = r.given
    /\ loaded = r.loaded
    /\ op = r.op
    /\ ran = r.ran
    /\ noop = r.noop
    /\ sched_delay = r.sched_delay
    /\ waited = r.waited

\* main(): load_words returned a non-empty list, the app is constructed
\* (config loaded, set_words run) and the event loop is about to start.
Init ==
    \E file \in InitFiles, list \in WordLists \ {<<>>} :
        \E shuffled \in Shuffles(list) :
            Is(set_words(Constructed(ConfigLoad(file, "ok"), list,
                                     NotFollowed),
                         list, shuffled))

\* ------------------------------------------------------------ actions
\* The time that passes between two events: one unit less than a second,
\* so that deadlines are met late and remaining times have a fraction of a
\* millisecond, as with a float clock.
TickSteps == {Sub * MsPerSecond - 1}

\* Time passes.  Tk runs a due timer before more time passes (a timer
\* fires up to one step late).
Tick(d) ==
    /\ \A t \in timers : t.left > 0
    /\ Becomes([Enter(St, "tick") EXCEPT
           !.timers = {[t EXCEPT !.left = @ - d] : t \in timers},
           !.job_end_time = IF job_end_time # None
                            THEN Some(job_end_time[1] - d) ELSE None,
           !.waited = IF current_job # None THEN @ + d ELSE @])

\* A due timer fires: Tk drops it and calls _execute_job.
TimerFire ==
    \E t \in timers, shuffled \in Shuffles(words) :
        /\ t.left <= 0
        /\ Becomes(_execute_job(
               [Enter(St, "timer") EXCEPT !.timers = timers \ {t}],
               shuffled))

\* The pause button, which toggle_pause routes to pause() or resume(); both
\* are modelled as callable in any state, as their guards provide for.
Pause == \E s \in {pause(St)} : Becomes(s)

Resume == \E shuffled \in Shuffles(words) : Becomes(resume(St, shuffled))

\* update_config as SettingsWindow._save_settings calls it for valid timer
\* fields, config.json being written without error.
UpdateConfig ==
    \E a, b \in TimerChoices, c \in BOOLEAN :
        /\ a > 0 /\ b > 0
        /\ Becomes(update_config(Enter(St, "update_config"), PyInt(a),
                                 PyInt(b), PyBool(c), "ok"))

SetWords ==
    \E list \in WordLists :
        \E shuffled \in Shuffles(list) :
            /\ Len(list) <= MaxWords
            /\ Becomes(set_words(Enter(St, "set_words"), list, shuffled))

Next ==
    \/ \E d \in TickSteps : Tick(d)
    \/ TimerFire
    \/ Pause
    \/ Resume
    \/ UpdateConfig
    \/ SetWords

Spec == Init /\ [][Next]_vars

\* Time passes while a timer is armed.
ArmedTick == \E d \in TickSteps : Tick(d) /\ timers # {}

\* The event loop's scheduling: a due timer that stays due is run, and the
\* clock does not stand still: an app that is un-paused again and again
\* with a timer armed sees time pass on that timer again and again.
LiveSpec ==
    Init /\ [][Next]_vars /\ WF_vars(TimerFire) /\ SF_vars(ArmedTick)

\* ------------------------------------------------------------ helpers
Has(seq, x) == \E i \in 1..Len(seq) : seq[i] = x
Count(seq, x) == Cardinality({i \in 1..Len(seq) : seq[i] = x})
\* the two lists hold the same entries, each as many times
SameEntries(a, b) ==
    /\ Len(a) = Len(b)
    /\ \A e \in Entries : Count(a, e) = Count(b, e)
ShowDelay == config_data.showMeaningTimer * MsPerSecond * Sub
NextDelay == config_data.nextWordTimer * MsPerSecond * Sub

\* ------------------------------------------------------------ C1
\* C1: after any sequence of operations and timer expirations at most one
\* delayed callback is armed with the event loop, and it is the one
\* current_job names: every timer armed earlier has been cancelled, so no
\* cancelled timer is left to run its callback.
C1_SingleTimer ==
    /\ Cardinality(timers) <= 1
    /\ \A t \in timers : current_job = Some(t.id)
    /\ current_job # None => \E t \in timers : t.id = current_job[1]

\* a new timer was scheduled over an armed one (update_config while running)
C1_Witness ==
    /\ op = "update_config"
    /\ ~paused
    /\ Cardinality(timers) = 1
    /\ job_end_time = Some(ShowDelay)

\* ------------------------------------------------------------ C2
\* resume() runs with a callback pending: the only step that clears paused
C2_ResumeStep ==
    /\ paused /\ ~paused'
    /\ job_callback # None /\ remaining_ms # None

\* C2 as stated: when pause() captured R (0 < R <= D), the next resume()
\* re-arms the same callback for exactly R, so that the un-paused time
\* waited plus the time left to the deadline is again D.
C2_Original ==
    [][(C2_ResumeStep /\ remaining_ms[1] > 0) =>
          /\ job_callback' = job_callback
          /\ job_end_time' = remaining_ms
          /\ waited' + remaining_ms[1] = sched_delay']_vars

\* C2 (amended): resume() re-arms the same callback for R truncated to whole
\* milliseconds when R >= 1 ms (and calls it at once when 0 < R < 1 ms), so
\* each pause/resume pair shortens the wait by less than 1 ms; the un-paused
\* time waited plus the time left to the deadline never exceeds D, and the
\* stored remaining delay is always between 0 and D.
C2_Amended ==
    /\ [][(C2_ResumeStep /\ remaining_ms[1] >= Sub) =>
             /\ job_callback' = job_callback
             /\ job_end_time' = Some(IntMs(remaining_ms[1]))
             /\ remaining_ms[1] - job_end_time'[1] < Sub
             /\ timers' = {[id |-> current_job'[1],
                            left |-> job_end_time'[1]]}
             /\ waited' = waited /\ sched_delay' = sched_delay]_vars
    /\ [][(C2_ResumeStep /\ remaining_ms[1] < Sub) =>
             /\ ran' # <<>>
             /\ ran'[1] = job_callback[1]]_vars
    /\ [](remaining_ms # None =>
             remaining_ms[1] >= 0 /\ remaining_ms[1] <= sched_delay)
    /\ [](current_job # None =>
             /\ job_end_time # None
             /\ waited + job_end_time[1] <= sched_delay)

\* re-armed after a pause that caught a fractional remaining time: the new
\* deadline is earlier than the original one
C2_Witness ==
    /\ op = "resume"
    /\ current_job # None
    /\ job_end_time # None
    /\ remaining_ms # None
    /\ job_end_time[1] < remaining_ms[1]
    /\ waited + job_end_time[1] < sched_delay

\* ------------------------------------------------------------ C3
\* C3: with a non-empty list the timer-driven sequence of a word is
\* display_word (word shown, reading and meaning blank, reveal armed with
\* showMeaningTimer seconds), then display_meaning (reading and meaning of
\* that same word shown, advance armed with nextWordTimer seconds), then
\* advance_word: display_meaning runs only while the reveal of the displayed
\* word is pending and so once per display_word, advance_word only after
\* display_meaning has run, a timer never fires before its deadline, and
\* pause/resume in between change none of this.
C3_Sequence ==
    [][LET dw == Has(ran', "display_word")
           dm == Has(ran', "display_meaning")
           adv == Has(ran', "advance_word")
       IN  /\ (dw /\ words' # <<>>) =>
                 /\ word_var' = words'[current_index' + 1].word
                 /\ reading_var' = "" /\ meaning_var' = ""
                 /\ job_callback' = Some("display_meaning")
                 /\ remaining_ms' = Some(ShowDelay')
                 /\ ~paused' => job_end_time' = Some(ShowDelay')
           /\ dm =>
                 /\ op' \in {"timer", "resume"}
                 /\ job_callback = Some("display_meaning")
                 /\ reading_var = "" /\ meaning_var = ""
                 /\ Count(ran', "display_meaning") = 1
                 /\ ~dw /\ ~adv
                 /\ words' = words /\ current_index' = current_index
                 /\ word_var' = word_var
                 /\ reading_var' = words[current_index + 1].reading
                 /\ meaning_var' = words[current_index + 1].meaning
                 /\ job_callback' = Some("advance_word")
                 /\ remaining_ms' = Some(NextDelay')
                 /\ ~paused' /\ job_end_time' = Some(NextDelay')
           /\ adv =>
                 /\ op' \in {"timer", "resume"}
                 /\ job_callback = Some("advance_word")
                 /\ reading_var = words[current_index + 1].reading
                 /\ meaning_var = words[current_index + 1].meaning
                 /\ Count(ran', "advance_word") = 1
           /\ op' = "timer" =>
                 /\ job_end_time # None /\ job_end_time[1] <= 0
                 /\ dm \/ adv
           /\ (op' \in {"pause", "resume"} /\ ~dm /\ ~adv) =>
                 /\ job_callback' = job_callback
                 /\ UNCHANGED <<words, current_index, word_var, reading_var,
                                meaning_var>>]_vars

\* a word went through the whole sequence (its advance was called inside
\* resume(), after a pause that caught the deadline) and the next is shown
C3_Witness ==
    /\ op = "resume"
    /\ ran = <<"advance_word", "display_word">>
    /\ current_index = 1
    /\ word_var = words[2].word
    /\ reading_var = ""

\* ------------------------------------------------------------ C4
\* C4: advance_word sets current_index to (current_index + 1) mod
\* len(words); the list is reshuffled exactly when the result is 0, the
\* reshuffled list holds the same entries as before and as the word bank
\* (so the word at index 0 after the wrap is one of them), an advance that
\* does not wrap leaves the order alone, and display_word then runs on the
\* new index.
C4_Advance ==
    [][(Has(ran', "advance_word") /\ words # <<>>) =>
          /\ current_index' = (current_index + 1) % Len(words)
          /\ Has(ran', "shuffle") <=> current_index' = 0
          /\ current_index' # 0 => words' = words
          /\ SameEntries(words', words)
          /\ SameEntries(words', word_bank)
          /\ word_bank' = word_bank
          /\ \E i \in 1..Len(words) : words'[current_index' + 1] = words[i]
          /\ ran'[Len(ran')] = "display_word"
          /\ word_var' = words'[current_index' + 1].word
          /\ reading_var' = "" /\ meaning_var' = ""]_vars

\* an advance from the last index wrapped to 0 and the reshuffle changed
\* the order of a two-word bank
C4_Witness ==
    /\ op = "timer"
    /\ Has(ran, "advance_word") /\ Has(ran, "shuffle")
    /\ current_index = 0
    /\ Len(words) = 2
    /\ words # word_bank
    /\ word_var = words[1].word

\* ------------------------------------------------------------ C5
\* C5: if the app is not left paused forever, config and word-list changes
\* eventually stop and the list they leave is not empty, the cycle runs
\* forever: a pending reveal is eventually followed by display_meaning, a
\* pending advance by advance_word, and the list is reshuffled again and
\* again; the display list always holds exactly the entries of the word
\* bank, and the timer-driven displays between two reshuffles visit the
\* indexes 0, 1, ..., n-1 in order, so each entry is displayed once.
C5_Cycle ==
    /\ ( /\ []<>(~paused)
         /\ <>[][op' \notin {"update_config", "set_words"}]_vars
         /\ <>[](words # <<>>) )
       => /\ (job_callback = Some("display_meaning"))
                ~> (job_callback = Some("advance_word"))
          /\ (job_callback = Some("advance_word"))
                ~> (job_callback = Some("display_meaning"))
          /\ []<>(Has(ran, "shuffle"))
    /\ [](SameEntries(words, word_bank)
          /\ (words # <<>> => current_index < Len(words)))
    /\ [][(op' \in {"timer", "resume"} /\ Has(ran', "display_word")) =>
             \/ /\ current_index' = current_index + 1
                /\ ~Has(ran', "shuffle")
                /\ words' = words
             \/ /\ current_index = Len(words) - 1
                /\ current_index' = 0
                /\ Has(ran', "shuffle")]_vars

\* a two-word cycle was traversed to its end and the list reshuffled
C5_Witness ==
    /\ Len(words) = 2
    /\ current_index = 0
    /\ Has(ran, "shuffle")
    /\ word_bank[1] # word_bank[2]
    /\ job_callback = Some("display_meaning")
    /\ ~paused

C7_ResumeCall ==
    /\ op' = "resume" /\ paused
    /\ job_callback # None /\ remaining_ms # None

\* the stored callback is invoked exactly once, first thing, in this step
C7_CalledInside ==
    /\ ran' # <<>>
    /\ ran'[1] = job_callback[1]
    /\ Count(ran', "display_meaning") + Count(ran', "advance_word") = 1

\* C7 as stated: resume() invokes the stored callback itself exactly when
\* the captured remaining delay is <= 0, and otherwise re-arms the timer
\* with the stored remaining delay and deadline now + remaining, without
\* invoking the callback (the re-armed delay is accepted here with or
\* without its fraction of a millisecond).
C7_Original ==
    [][C7_ResumeCall =>
          IF remaining_ms[1] <= 0
          THEN C7_CalledInside
          ELSE /\ ran' = <<>>
               /\ job_callback' = job_callback
               /\ current_job' # None
               /\ job_end_time' \in {remaining_ms,
                                     Some(IntMs(remaining_ms[1]))}
               /\ timers' = {[id |-> current_job'[1],
                              left |-> job_end_time'[1]]}]_vars

\* C7 (amended): resume() invokes the stored callback immediately and
\* exactly once, inside resume(), when the captured remaining delay is
\* below 1 ms (int(remaining) = 0); otherwise it re-arms the timer with
\* int(remaining), the remaining delay truncated to whole milliseconds, and
\* a fresh deadline now + int(remaining), and does not invoke the callback.
C7_Amended ==
    [][C7_ResumeCall =>
          /\ ~paused' /\ pause_button' = PauseLabel
          /\ IF remaining_ms[1] < Sub
             THEN C7_CalledInside
             ELSE /\ ran' = <<>>
                  /\ job_callback' = job_callback
                  /\ remaining_ms' = remaining_ms
                  /\ current_job' # None
                  /\ job_end_time' = Some(IntMs(remaining_ms[1]))
                  /\ timers' = {[id |-> current_job'[1],
                                 left |-> IntMs(remaining_ms[1])]}
                  /\ UNCHANGED <<words, current_index, word_var,
                                 reading_var, meaning_var>>]_vars

\* resume() called display_meaning itself: the pause had caught the reveal
\* timer at or past its deadline
C7_Witness ==
    /\ op = "resume"
    /\ ran # <<>> /\ ran[1] = "display_meaning"
    /\ job_callback = Some("advance_word")
    /\ reading_var # ""

\* ------------------------------------------------------------ C8
\* C8: pause() on an app that is already paused changes nothing (paused
\* flag, stored callback, stored remaining delay, deadline, armed timers,
\* display and config are as the first pause() left them), and resume() on
\* an app that is not paused changes nothing and arms no second timer.
C8_Idempotent ==
    [][/\ (op' = "pause" /\ paused) => (noop' /\ UNCHANGED progvars)
       /\ (op' = "resume" /\ ~paused) => (noop' /\ UNCHANGED progvars)
       /\ (op' = "pause" /\ ~paused) => (~noop' /\ paused')
       /\ (op' = "resume" /\ paused) => (~noop' /\ ~paused')]_vars

\* pause() was called on a paused app that holds a pending callback with
\* part of its delay used up
C8_Witness ==
    /\ op = "pause" /\ noop
    /\ paused
    /\ job_callback # None
    /\ remaining_ms # None
    /\ remaining_ms[1] < sched_delay
    /\ timers = {}

\* ------------------------------------------------------------ C9
\* C9: with an empty word list display_word shows the "no words" label
\* with blank reading and meaning and arms no timer, so an empty list goes
\* with no armed timer and no pending callback; while the list stays empty
\* no pause, resume, timer step or update_config arms a timer or runs
\* display_meaning.
C9_EmptyList ==
    /\ [](words = <<>> =>
             /\ word_var = NoWordsText
             /\ reading_var = "" /\ meaning_var = ""
             /\ timers = {} /\ current_job = None
             /\ job_callback = None /\ job_end_time = None)
    /\ [][(words = <<>> /\ words' = <<>>) =>
             /\ timers' = {}
             /\ ~Has(ran', "display_meaning")
             /\ ~Has(ran', "_execute_job")
             /\ word_var' = NoWordsText]_vars

\* resume() ran on a paused app with an empty list and armed nothing
C9_Witness ==
    /\ words = <<>>
    /\ op = "resume" /\ ~noop
    /\ ~paused
    /\ timers = {}
    /\ word_var = NoWordsText

\* ------------------------------------------------ ConfigManager alone
\* The values handed to ConfigManager for a timer and for alwaysOnTop, and
\* the contents config.json is found with.
CfgTimerVals ==
    {PyInt(0), PyInt(2), PyInt(-1), PyBool(TRUE), PyFloat(27),
     PyStr(" 1 "), PyStr("abc"), PyNone}
CfgFlagVals == {PyBool(TRUE), PyBool(FALSE), PyInt(0), PyStr("abc"), PyNone}
\* in a file a timer may also be a number too large for a float (1e999)
CfgFileVals == CfgTimerVals \cup {PyInf}
RawDicts ==
    {DictFile(a, b, c) : a \in CfgFileVals, b \in CfgFileVals,
                         c \in CfgFlagVals}
RawFiles ==
    {NoFile, UnreadableFile, UndecodableFile, CorruptFile, NonDictFile}
        \cup RawDicts

\* history: what kind of timer argument update() was given
ArgTag(v) ==
    IF ~IntOk(v) THEN "not-int"
    ELSE IF IntOf(v) = 0 THEN "zero"
    ELSE IF IntOf(v) < 0 THEN "negative" ELSE "positive"

\* The state with the ConfigManager cm, after the call `name` on `input`.
WithConfig(cm, name, tags, input) ==
    Becomes([St EXCEPT !.config_data = cm.data, !.config_file = cm.file,
                       !.op = name, !.ran = tags, !.noop = FALSE,
                       !.raised = cm.exc, !.given = input])

\* a ConfigManager exists: the constructor did not raise
HasManager == ~(op = "load" /\ raised # None)

\* ConfigManager(CONFIG_PATH) over any config.json; the fields of the app
\* are as its constructor sets them and stay so in CfgSpec.  In CfgSpec
\* config.json is written without error, as in Spec.
CfgInit ==
    \E file \in RawFiles :
        Is([Constructed(ConfigLoad(file, "ok"), <<>>, NotFollowed) EXCEPT
               !.op = "load", !.given = Some(file)])

\* the program is started again: ConfigManager loads what is on disk
CfgLoad ==
    \E cm \in {ConfigLoad(config_file, "ok")} :
        WithConfig(cm, "load", <<>>, Some(config_file))

CfgSave ==
    \E arg \in {None} \cup {Some(raw) : raw \in RawDicts \cup {NonDictFile}} :
        /\ HasManager
        /\ WithConfig(ConfigSave([data |-> config_data,
                                  file |-> config_file, exc |-> None],
                                 arg, "ok"),
                      "save", <<>>, None)

CfgUpdate ==
    \E a, b \in CfgTimerVals, c \in CfgFlagVals :
        /\ HasManager
        /\ WithConfig(ConfigUpdate([data |-> config_data,
                                    file |-> config_file, exc |-> None],
                                   a, b, c, "ok"),
                      "update", <<ArgTag(a), ArgTag(b)>>, Some(<<a, b, c>>))

CfgNext == CfgLoad \/ CfgSave \/ CfgUpdate

CfgSpec == CfgInit /\ [][CfgNext]_vars

\* ------------------------------------------------------------ C10
ValidData(d) ==
    /\ d.showMeaningTimer \in Nat /\ d.showMeaningTimer > 0
    /\ d.nextWordTimer \in Nat /\ d.nextWordTimer > 0
    /\ d.alwaysOnTop \in BOOLEAN
ValidFile(f) ==
    /\ f.kind = "dict"
    /\ f.showMeaningTimer.t = "int" /\ f.showMeaningTimer.n > 0
    /\ f.nextWordTimer.t = "int" /\ f.nextWordTimer.n > 0
    /\ f.alwaysOnTop.t = "bool"

\* C10: after any sequence of ConfigManager load, save and update calls
\* with arbitrary arguments the in-memory config has integer timers > 0
\* and a boolean alwaysOnTop, and so has every content a completed write
\* leaves in config.json (which is the in-memory config); an update that
\* is given a timer that is 0, negative or no integer stores the default,
\* never 0.
C10_ValidConfig ==
    /\ [](ValidData(config_data))
    /\ []((op \in {"save", "update"} /\ raised = None) =>
             ValidFile(config_file) /\ config_file = Dump(config_data))
    /\ [][(config_file' # config_file /\ raised' = None) =>
             ValidFile(config_file') /\ config_file' = Dump(config_data')]_vars
    /\ []((op = "update" /\ ran[1] # "positive"
               /\ raised # Some("OverflowError")) =>
             config_data.showMeaningTimer = DEFAULT_CONFIG.showMeaningTimer)
    /\ []((op = "update" /\ ran[2] # "positive"
               /\ raised # Some("OverflowError")) =>
             config_data.nextWordTimer = DEFAULT_CONFIG.nextWordTimer)

\* update was called with showMeaningTimer = 0 and stored the default
C10_Witness ==
    /\ op = "update"
    /\ raised = None
    /\ ran[1] = "zero"
    /\ config_data.showMeaningTimer = DEFAULT_CONFIG.showMeaningTimer
    /\ config_file.showMeaningTimer = PyInt(DEFAULT_CONFIG.showMeaningTimer)

\* ------------------------------------------------------------ C12
\* the timer value v is a positive integer
PositiveInt(v) == v.t = "int" /\ v.n > 0
\* the timer value v is non-positive, fractional, a non-numeric string or
\* null (a boolean or a string of digits is taken as neither here)
NotPositiveInt(v) ==
    \/ v.t = "int" /\ v.n <= 0
    \/ v.t \in {"float", "none", "inf"}
    \/ v.t = "str" /\ v.s \notin IntTexts

\* what C12 says is stored for the timer value v with default d
C12_Stored(v, d, stored) ==
    /\ PositiveInt(v) => stored = v.n
    /\ NotPositiveInt(v) => stored = d

\* C12: update(a, b, c) and load replace a timer value by its default
\* whenever the value is non-positive or is not an integer (a fractional
\* number such as 2.7, a non-numeric string, null) and store the value
\* unchanged only when it is a positive integer.
C12_Original ==
    /\ (op = "update" /\ raised = None) =>
          /\ C12_Stored(given[1][1], DEFAULT_CONFIG.showMeaningTimer,
                        config_data.showMeaningTimer)
          /\ C12_Stored(given[1][2], DEFAULT_CONFIG.nextWordTimer,
                        config_data.nextWordTimer)
    /\ (op = "load" /\ raised = None /\ given[1].kind = "dict") =>
          /\ C12_Stored(given[1].showMeaningTimer,
                        DEFAULT_CONFIG.showMeaningTimer,
                        config_data.showMeaningTimer)
          /\ C12_Stored(given[1].nextWordTimer,
                        DEFAULT_CONFIG.nextWordTimer,
                        config_data.nextWordTimer)

\* ------------------------------------------------------------ C13
\* what C13 says load makes of the timer value v with default d; for a
\* fractional number both the default and the truncated value are accepted
\* here (that is C12's question)
C13_Timer(v, d, stored) ==
    /\ PositiveInt(v) => stored = v.n
    /\ (NotPositiveInt(v) /\ v.t # "float") => stored = d
    /\ v.t = "float" => stored \in {d, TruncTenths(v.n)}

\* C13: loading a config whose JSON object has fields missing or invalid
\* replaces only those fields by their defaults and keeps every valid
\* field: alwaysOnTop missing or not a boolean yields true, and an invalid
\* timer resets neither the other timer nor alwaysOnTop.
C13_Original ==
    (op = "load" /\ given[1].kind = "dict") =>
        /\ raised = None
        /\ C13_Timer(given[1].showMeaningTimer,
                     DEFAULT_CONFIG.showMeaningTimer,
                     config_data.showMeaningTimer)
        /\ C13_Timer(given[1].nextWordTimer, DEFAULT_CONFIG.nextWordTimer,
                     config_data.nextWordTimer)
        /\ config_data.alwaysOnTop =
               IF given[1].alwaysOnTop.t = "bool"
               THEN given[1].alwaysOnTop.n = 1
               ELSE DEFAULT_CONFIG.alwaysOnTop

\* ------------------------------------------------------------ C14
\* C14: loading the config when config.json is missing or corrupt (not
\* JSON, or not even UTF-8 text) does not raise: it returns the defaults
\* and leaves config.json holding them, so that file and memory agree.
\* (Checked where the write of the defaults succeeds.)
C14_Original ==
    (op = "load" /\ given[1].kind \in {"missing", "corrupt", "undecodable"}) =>
        /\ raised = None
        /\ config_data = DEFAULT_CONFIG
        /\ config_file = Dump(DEFAULT_CONFIG)

\* ------------------------------------------------ the word loaders alone
\* sequences of at most n members of S
SeqsUpTo(S, n) == UNION {[1..k -> S] : k \in 0..n}

\* JSON array elements: two complete records, a non-object, and the first
\* record with one field absent, null, empty or blank.
GoodA == Obj(PyStr(" w1 "), PyStr("r1"), PyStr("m1"))
GoodB == Obj(PyStr("w2"), PyStr("r2"), PyStr("m2"))
BadFieldVals == {Absent, PyNone, PyStr(""), PyStr(" ")}
JsonItems ==
    {GoodA, GoodB, NonObj}
        \cup {[GoodA EXCEPT !.word = v] : v \in BadFieldVals}
        \cup {[GoodA EXCEPT !.reading = v] : v \in BadFieldVals}
        \cup {[GoodA EXCEPT !.meaning = v] : v \in BadFieldVals}
JsonFiles ==
    {JsonFile(k) : k \in {"missing", "unreadable", "undecodable", "badjson",
                          "nonarray"}}
        \cup {JsonArray(items) : items \in SeqsUpTo(JsonItems, MaxItems)}

\* CSV data rows: two complete rows, the first with one cell empty or
\* blank, rows shorter than the header, a line without cells, a longer row.
RowA == <<" w1 ", "r1", "m1">>
RowB == <<"w2", "r2", "m2">>
CsvRows ==
    {RowA, RowB, <<"", "r1", "m1">>, <<" ", "r1", "m1">>,
     <<" w1 ", "", "m1">>, <<" w1 ", " ", "m1">>, <<" w1 ", "r1", "">>,
     <<" w1 ", "r1", " ">>, <<" w1 ", "r1">>, <<" w1 ">>, <<>>,
     <<"w2", "r2", "m2", "x">>}
StdHeader == << <<"word">>, <<"reading">>, <<"meaning">> >>
\* names for the first column: "Word" with blanks and U+FEFF around it
DecoratedNames == SeqsUpTo({"bom", "sp", "Word"}, 3) \ {<<>>}
CsvHeaders ==
    {<<n, <<"Reading">>, <<"meaning">>>> : n \in DecoratedNames}
        \cup {<< <<"word">>, <<"reading">> >>,
              << <<"word">>, <<"x">>, <<"meaning">> >>,
              << <<"meaning">>, <<"WORD">>, <<"reading">> >>,
              << <<"word">>, <<"WORD">>, <<"reading">>, <<"meaning">> >>,
              << <<>>, <<"word">>, <<"reading">>, <<"meaning">> >>,
              << <<"x">>, <<"word">>, <<"reading">>, <<"meaning">> >>}
CsvFiles ==
    {CsvFile(k) : k \in {"missing", "unreadable", "undecodable", "csverror"}}
        \cup {CsvTable(<<>>, <<>>)}
        \cup {CsvTable(StdHeader, rows) : rows \in SeqsUpTo(CsvRows, MaxItems)}
        \cup {CsvTable(h, <<RowB>>) : h \in CsvHeaders}

\* the loader _import_words picks for a file: by its suffix
Load(file) ==
    IF file.fmt = "csv" THEN load_words_from_csv(file) ELSE load_words(file)

\* A file is at hand; the rest of the state is as the constructors start
\* it and stays so in LoaderSpec.
Holding(file) ==
    [Constructed([data |-> DEFAULT_CONFIG, file |-> NoFile, exc |-> None],
                 <<>>, NotFollowed)
        EXCEPT !.op = "pick", !.given = Some(file)]

LoaderInit == \E file \in JsonFiles \cup CsvFiles : Is(Holding(file))

LoadJson ==
    /\ op = "pick" /\ given[1].fmt = "json"
    /\ Becomes([St EXCEPT !.op = "load_words",
                          !.loaded = Some(load_words(given[1]))])

LoadCsv ==
    /\ op = "pick" /\ given[1].fmt = "csv"
    /\ Becomes([St EXCEPT !.op = "load_words_from_csv",
                          !.loaded = Some(load_words_from_csv(given[1]))])

LoaderNext == LoadJson \/ LoadCsv

LoaderSpec == LoaderInit /\ [][LoaderNext]_vars

\* ------------------------------------------------------------ C15
\* The records of the file the loader was given: the elements of the JSON
\* array, or the CSV data rows (lines with cells) as dicts of their cells.
RecordsOf(file) ==
    IF file.fmt = "json" THEN file.items
    ELSE LET h == file.header
             data == SelectSeq(file.rows, LAMBDA row : row # <<>>)
         IN  [i \in 1..Len(data) |->
                 Obj(RowGet(h, data[i], HeaderName(h, "word")),
                     RowGet(h, data[i], HeaderName(h, "reading")),
                     RowGet(h, data[i], HeaderName(h, "meaning")))]

\* the file is a JSON array, or a CSV table under the plain header
PlainTable(file) ==
    IF file.fmt = "json" THEN file.kind = "array"
    ELSE file.kind = "table" /\ file.header = StdHeader

\* the field is present and its text is non-empty after trimming
FieldPresent(v) == v.t = "str" /\ Strip(v.s) # ""
\* the record has all three fields so
Complete(item) ==
    /\ item.obj
    /\ FieldPresent(item.word)
    /\ FieldPresent(item.reading)
    /\ FieldPresent(item.meaning)
Trimmed(item) ==
    [word |-> Strip(item.word.s), reading |-> Strip(item.reading.s),
     meaning |-> Strip(item.meaning.s)]
\* the complete records of a file, trimmed, in input order
CompleteRecords(file) ==
    LET kept == SelectSeq(RecordsOf(file), Complete)
    IN  [i \in 1..Len(kept) |-> Trimmed(kept[i])]

\* C15: load_words and load_words_from_csv return exactly the input
\* records that have word, reading and meaning present and non-empty after
\* trimming, in input order with the fields trimmed; every other record
\* (absent key, null value, CSV row shorter than the header, empty or blank
\* text, non-object element) is dropped and never appears in the result.
C15_Original ==
    (op \in {"load_words", "load_words_from_csv"} /\ PlainTable(given[1])) =>
        /\ loaded[1].kind = "list" =>
               loaded[1].list = CompleteRecords(given[1])
        /\ CompleteRecords(given[1]) # <<>> => loaded[1].kind = "list"

\* ------------------------------------------------------------ C16
\* C16: a loader never returns an empty list: it raises a validation error
\* (ValueError) and returns no list whenever no record of the file comes
\* through the filter (each is a non-object or has a field whose text is
\* empty after trimming; also a file without records), for JSON and for
\* CSV, and load_words raises it when the top level is not an array.
C16_NoEmptyList ==
    op \in {"load_words", "load_words_from_csv"} =>
        /\ loaded[1].kind = "list" => loaded[1].list # <<>>
        /\ loaded[1].kind = "raise" => loaded[1].list = <<>>
        /\ given[1].kind = "nonarray" => loaded[1] = Raises("ValueError")
        /\ ( /\ PlainTable(given[1])
             /\ \A i \in 1..Len(RecordsOf(given[1])) :
                    LET item == RecordsOf(given[1])[i]
                    IN  \/ ~item.obj
                        \/ \E v \in {item.word, item.reading, item.meaning} :
                               Strip(StrOf(v)) = "" )
             => loaded[1] = Raises("ValueError")

\* a CSV file of MaxItems data rows, none of them complete, was refused
C16_Witness ==
    /\ op = "load_words_from_csv"
    /\ given[1].kind = "table"
    /\ Len(given[1].rows) = MaxItems
    /\ \A i \in 1..MaxItems : given[1].rows[i] # <<>>
    /\ loaded[1] = Raises("ValueError")

\* ------------------------------------------------------------ C17
\* a column name with letter case, surrounding blanks and a leading U+FEFF
\* (before or after the leading blanks) ignored
Ignoring(name) == Lower(StripName(LStrip(StripName(name), "bom")))

\* the header has a column for each of word, reading and meaning
C17_HasColumns(header) ==
    \A key \in {"word", "reading", "meaning"} :
        \E p \in 1..Len(header) : Ignoring(header[p]) = <<key>>

\* C17: load_words_from_csv accepts a header exactly when it has word,
\* reading and meaning columns under matching that ignores letter case,
\* surrounding white space and a leading byte-order mark (a file with such
\* a header and one complete data row parses and yields a row), and raises
\* a validation error when one of the three columns is missing.
C17_Original ==
    (op = "load_words_from_csv" /\ given[1].kind = "table"
         /\ given[1].rows = <<RowB>>) =>
        /\ C17_HasColumns(given[1].header) =>
               loaded[1].kind = "list" /\ Len(loaded[1].list) = 1
        /\ ~C17_HasColumns(given[1].header) =>
               loaded[1] = Raises("ValueError")

\* ------------------------------------------------------------ start-up
\* Before main() runs there is no window and no ConfigManager: the fields
\* hold the values the constructors start from, beside the two files.
Boot(cfile, wfile) ==
    [Constructed([data |-> DEFAULT_CONFIG, file |-> cfile, exc |-> None],
                 <<>>, wfile)
        EXCEPT !.op = "boot"]

\* main(): load_words(WORDS_PATH); on FileNotFoundError or ValueError the
\* error is shown and the root window destroyed; any other exception leaves
\* main() uncaught; else the app is constructed (ConfigManager loaded,
\* set_words run) and the main loop entered.
main(s, shuffled) ==
    LET r == load_words(s.words_file)
        s1 == [Enter(s, "main") EXCEPT !.given = Some(s.words_file),
                                       !.loaded = Some(r)]
        cm == ConfigLoad(s.config_file, "ok")
        app == [Constructed(cm, r.list, s.words_file) EXCEPT
                   !.op = "main", !.given = s1.given, !.loaded = s1.loaded]
    IN  IF r.kind = "raise"
        THEN IF r.exc = "FileNotFoundError" \/ IsValueError(r.exc)
             THEN Ran(Ran(s1, "showerror"), "destroy")
             ELSE [s1 EXCEPT !.raised = Some(r.exc)]
        ELSE IF cm.exc # None THEN app
        ELSE Ran(set_words(app, r.list, shuffled), "mainloop")

\* config.json at start-up: a valid file, none, or one that is not UTF-8
StartConfigs == InitFiles \cup {NoFile, UndecodableFile}

StartInit ==
    \E cfile \in StartConfigs, wfile \in JsonFiles : Is(Boot(cfile, wfile))

Main ==
    \E shuffled \in Shuffles(load_words(words_file).list) :
        /\ op = "boot"
        /\ Becomes(main(St, shuffled))

StartSpec == StartInit /\ [][Main]_vars

\* ------------------------------------------------------------ C20
\* C20: if the initial word bank cannot be loaded (words.json missing,
\* unreadable, not UTF-8, not JSON, not an array, without a valid entry),
\* main() shows the error and then terminates; the cycle is not started
\* and the main loop is entered only with a loaded, non-empty word bank.
C20_Original ==
    /\ (op = "main" /\ loaded[1].kind = "raise") =>
          /\ ran = <<"showerror", "destroy">>
          /\ raised = None
          /\ timers = {} /\ job_callback = None
    /\ (Has(ran, "mainloop") \/ timers # {}) =>
          /\ loaded[1].kind = "list"
          /\ word_bank = loaded[1].list /\ word_bank # <<>>

\* ------------------------------------------------ the settings window
\* variant: the bank is set, the display is left as it is
WordCyclerApp_save_words_noset(s, list, w, shuffled) ==
    LET s1 == [Ran(s, "save_words") EXCEPT
                   !.words_file = save_words(s.words_file, list, w)]
    IN  IF w # "ok" THEN [s1 EXCEPT !.raised = Some("OSError")]
        ELSE [s1 EXCEPT !.word_bank = list]

\* WordCyclerApp.save_words: words.json is written (outcome w), then the
\* bank is set and set_words run; a failing write ends the method.
WordCyclerApp_save_words(s, list, w, shuffled) ==
    LET s1 == [Ran(s, "save_words") EXCEPT
                   !.words_file = save_words(s.words_file, list, w)]
    IN  IF w # "ok" THEN [s1 EXCEPT !.raised = Some("OSError")]
        ELSE set_words([s1 EXCEPT !.word_bank = list], list, shuffled)

\* variant: the error is reported, but the values are stored all the same
_save_settings_noreturn(s, show_text, next_text, always_on_top, w) ==
    LET s1 == [s EXCEPT !.given = Some(<<show_text, next_text>>)]
        show_meaning == parse_positive_int(PyStr(show_text), -1)
        next_word == parse_positive_int(PyStr(next_text), -1)
        s2 == IF show_meaning <= 0 \/ next_word <= 0
              THEN Ran(s1, "showerror") ELSE s1
        s3 == update_config(Ran(s2, "update_config"), PyInt(show_meaning),
                            PyInt(next_word), PyBool(always_on_top), w)
    IN  IF s3.raised # None THEN s3 ELSE Ran(s3, "showinfo")

\* SettingsWindow._save_settings: the texts of the two timer fields, the
\* check box, and the outcome w of writing config.json.
_save_settings(s, show_text, next_text, always_on_top, w) ==
    LET s1 == [s EXCEPT !.given = Some(<<show_text, next_text>>)]
        show_meaning == parse_positive_int(PyStr(show_text), -1)
        next_word == parse_positive_int(PyStr(next_text), -1)
    IN  IF show_meaning <= 0 \/ next_word <= 0
        THEN Ran(s1, "showerror")
        ELSE LET s2 == update_config(Ran(s1, "update_config"),
                                     PyInt(show_meaning), PyInt(next_word),
                                     PyBool(always_on_top), w)
             IN  IF s2.raised # None THEN s2 ELSE Ran(s2, "showinfo")

\* _add_word / _edit_word / _delete_word: entry is the editor dialog's
\* result (trimmed, all fields non-empty), index the selected row (1-based)
_add_word(s, entry) ==
    [s EXCEPT !.words_data = Some(Append(s.words_data[1], entry))]
_edit_word(s, index, entry) ==
    [s EXCEPT !.words_data = Some([s.words_data[1] EXCEPT ![index] = entry])]
_delete_word(s, index) ==
    [s EXCEPT !.words_data =
        Some([i \in 1..(Len(s.words_data[1]) - 1) |->
                 IF i < index THEN s.words_data[1][i]
                 ELSE s.words_data[1][i + 1]])]

\* the loop of _save_words: the entries whose stripped texts are non-empty
StripEntry(entry) ==
    [word |-> Strip(entry.word), reading |-> Strip(entry.reading),
     meaning |-> Strip(entry.meaning)]
FullEntry(entry) ==
    /\ Strip(entry.word) # "" /\ Strip(entry.reading) # ""
    /\ Strip(entry.meaning) # ""

_save_words(s, w, shuffled) ==
    LET kept == SelectSeq(s.words_data[1], FullEntry)
        cleaned == [i \in 1..Len(kept) |-> StripEntry(kept[i])]
    IN  IF cleaned = <<>> THEN Ran(s, "showerror")
        ELSE LET s1 == WordCyclerApp_save_words(
                           [s EXCEPT !.words_data = Some(cleaned)],
                           cleaned, w, shuffled)
             IN  IF s1.raised # None THEN s1 ELSE Ran(s1, "showinfo")

\* SettingsWindow._import_words for the file picked in the dialog (None:
\* the dialog was cancelled); a failing write of words.json is caught and
\* the working copy handed back to set_words.
_import_words(s, picked, w, shuffled, reshuffled) ==
    IF picked = None THEN s
    ELSE LET r == Load(picked[1])
             s1 == [s EXCEPT !.given = picked, !.loaded = Some(r)]
             previous == s.words_data[1]
             s2 == WordCyclerApp_save_words(
                       [s1 EXCEPT !.words_data = Some(r.list)], r.list, w,
                       shuffled)
         IN  IF r.kind = "raise"
             THEN IF r.exc = "FileNotFoundError" \/ IsValueError(r.exc)
                       \/ IsOSError(r.exc)
                  THEN Ran(s1, "showerror")
                  ELSE [s1 EXCEPT !.raised = Some(r.exc)]
             ELSE IF s2.raised # None
             THEN Ran(set_words([s2 EXCEPT !.raised = None,
                                           !.words_data = Some(previous)],
                                previous, reshuffled),
                      "showerror")
             ELSE Ran(s2, "showinfo")

\* _export_json / _export_csv: the working copy is written to a file of
\* the user's choice (outcome w), which the model does not follow.
_export(s, w) ==
    IF s.words_data[1] = <<>> THEN Ran(s, "showwarning")
    ELSE IF w # "ok" THEN Ran(s, "showerror")
    ELSE Ran(s, "showinfo")

\* ------------------------------------------------ the panel's environment
\* What the user types into the two timer fields: the first field is given
\* a valid text and every invalid one beside a valid second one, the second
\* a zero.  The user clears the check box.
FieldTexts == (IntTexts \cup BadTexts) \ {"2"}
SettingsInputs == {<<a, "2">> : a \in FieldTexts} \cup {<<" 1 ", "0">>}
CheckBox == {FALSE}

\* The files the import dialog is pointed at.
ImportFiles ==
    {JsonArray(<<GoodB, GoodA>>),
     JsonArray(<<GoodA, Obj(PyStr(""), PyStr("r2"), PyStr("m2"))>>),
     CsvTable(StdHeader, <<RowB>>),
     JsonFile("badjson"), CsvFile("unreadable")}

\* Between two events at the panel more time passes than the longest timer
\* takes.
LongTick ==
    Sub * MsPerSecond * (CHOOSE m \in TimerChoices :
                            \A k \in TimerChoices : k <= m) + 1

\* The user keeps the word list free of repetitions.
NoRepeat(list) == \A i, j \in 1..Len(list) : list[i] = list[j] => i = j

\* main() has loaded words.json and constructed the app; the settings
\* window is closed.
PanelInit ==
    \E file \in InitFiles, list \in WordLists \ {<<>>} :
        \E shuffled \in Shuffles(list) :
            /\ NoRepeat(list)
            /\ Is(set_words(Constructed(ConfigLoad(file, "ok"), list,
                                        DumpWords(list)),
                            list, shuffled))

\* The same with a bank of two different words.
SettingsInit ==
    \E file \in InitFiles, list \in WordLists :
        \E shuffled \in Shuffles(list) :
            /\ Len(list) = 2 /\ list[1].word = "w1" /\ list[2].word = "w2"
            /\ Is(set_words(Constructed(ConfigLoad(file, "ok"), list,
                                        DumpWords(list)),
                            list, shuffled))

\* open_settings: a second window is not opened; SettingsWindow.__init__
\* copies the word bank into words_data.
OpenSettings ==
    /\ words_data = None
    /\ Becomes([Enter(St, "open_settings") EXCEPT
                   !.words_data = Some(word_bank)])

\* _on_close: the window and its working copy are gone.
CloseSettings ==
    /\ words_data # None
    /\ Becomes([Enter(St, "_on_close") EXCEPT !.words_data = None])

SaveSettings ==
    \E input \in SettingsInputs, c \in CheckBox, w \in WriteOutcomes :
        /\ words_data # None
        /\ Becomes(_save_settings(Enter(St, "_save_settings"), input[1],
                                  input[2], c, w))

AddWord ==
    \E entry \in Entries :
        /\ words_data # None /\ Len(words_data[1]) < MaxWords
        /\ NoRepeat(Append(words_data[1], entry))
        /\ Becomes(_add_word(Enter(St, "_add_word"), entry))

EditWord ==
    \E entry \in Entries :
        /\ words_data # None
        /\ \E index \in 1..Len(words_data[1]) :
               /\ NoRepeat([words_data[1] EXCEPT ![index] = entry])
               /\ Becomes(_edit_word(Enter(St, "_edit_word"), index, entry))

DeleteWord ==
    /\ words_data # None
    /\ \E index \in 1..Len(words_data[1]) :
           Becomes(_delete_word(Enter(St, "_delete_word"), index))

SaveWordList ==
    \E w \in WriteOutcomes :
        /\ words_data # None
        /\ \E shuffled \in Shuffles(words_data[1]) :
               Becomes(_save_words(Enter(St, "_save_words"), w, shuffled))

ImportWords ==
    \E picked \in {None} \cup {Some(f) : f \in ImportFiles},
       w \in WriteOutcomes :
        /\ words_data # None
        /\ \E shuffled \in Shuffles(IF picked = None THEN <<>>
                                      ELSE Load(picked[1]).list),
              reshuffled \in Shuffles(words_data[1]) :
               Becomes(_import_words(Enter(St, "_import_words"), picked, w,
                                     shuffled, reshuffled))

ExportWords ==
    \E w \in WriteOutcomes :
        /\ words_data # None
        /\ Becomes(_export(Enter(St, "_export"), w))

\* The settings window with its timer fields and their save button.
SettingsNext ==
    \/ \E d \in TickSteps : Tick(d)
    \/ TimerFire
    \/ Pause
    \/ Resume
    \/ OpenSettings
    \/ CloseSettings
    \/ SaveSettings

SettingsSpec == SettingsInit /\ [][SettingsNext]_vars

\* The settings window holds the grab while it is open: the pause button of
\* the main window is out of reach.
PanelPause == words_data = None /\ Pause
PanelResume == words_data = None /\ Resume

\* The settings window with its word list and the buttons beside it.
PanelNext ==
    \/ Tick(LongTick)
    \/ TimerFire
    \/ PanelPause
    \/ PanelResume
    \/ OpenSettings
    \/ CloseSettings
    \/ AddWord
    \/ EditWord
    \/ DeleteWord
    \/ SaveWordList
    \/ ImportWords
    \/ ExportWords

PanelSpec == PanelInit /\ [][PanelNext]_vars

\* ------------------------------------------------------------------ C11
\* A text of a timer field that does not denote an integer >= 1.
NotTimerText(txt) == txt \in BadTexts \/ IntOfText(txt) < 1

\* C11: when the settings are saved with a timer field whose text is not an
\* integer >= 1 (0, negative, empty, non-numeric), the input error is
\* reported and nothing else happens: no exception, and config, config.json,
\* the armed timer with its remaining time, the phase, current_index, the
\* displayed texts, the pause state and the word lists are as before.
C11_Rejected ==
    [][(op' = "_save_settings"
          /\ (NotTimerText(given'[1][1]) \/ NotTimerText(given'[1][2])))
       => /\ ran' = <<"showerror">>
          /\ raised' = None
          /\ UNCHANGED progvars]_vars

\* a save with a zero in the first field was rejected while the timer of
\* the meaning phase of the second word was armed
C11_Witness ==
    /\ op = "_save_settings" /\ given = Some(<<"0", "2">>)
    /\ ran = <<"showerror">>
    /\ timers # {} /\ job_callback = Some("advance_word")
    /\ current_index = 1 /\ meaning_var # ""

\* ------------------------------------------------------------------ C18
\* C18: after an import that succeeded (the picked JSON or CSV file gave at
\* least one entry and words.json was written; the handler reports it), the
\* word bank is the list of imported entries, words.json holds exactly
\* those entries, the display list is a permutation of them, and the cycle
\* restarts from display_word at index 0: the first word shows, reading and
\* meaning are blank, the reveal is pending with the full showMeaningTimer;
\* an app that was paused stays paused with no timer armed.
C18_Imported ==
    [][(op' = "_import_words" /\ Has(ran', "showinfo")) =>
          /\ loaded' = Some(Load(given'[1])) /\ loaded'[1].kind = "list"
          /\ loaded'[1].list # <<>>
          /\ word_bank' = loaded'[1].list
          /\ words_data' = Some(loaded'[1].list)
          /\ words_file' = DumpWords(loaded'[1].list)
          /\ SameEntries(words', loaded'[1].list)
          /\ raised' = None
          /\ ran' = <<"save_words", "set_words", "display_word", "showinfo">>
          /\ current_index' = 0
          /\ word_var' = words'[1].word
          /\ reading_var' = "" /\ meaning_var' = ""
          /\ job_callback' = Some("display_meaning")
          /\ remaining_ms' = Some(ShowDelay')
          /\ paused' = paused
          /\ ~paused =>
                /\ current_job' # None
                /\ timers' = {[id |-> current_job'[1], left |-> ShowDelay']}
                /\ job_end_time' = Some(ShowDelay')
                /\ pause_button' = PauseLabel
          /\ paused =>
                /\ timers' = {} /\ current_job' = None
                /\ job_end_time' = None
                /\ pause_button' = ResumeLabel]_vars

\* a CSV import succeeded on a paused app: its one entry is the bank, is
\* in words.json and is displayed, and no timer is armed
C18_Witness ==
    /\ op = "_import_words" /\ Has(ran, "showinfo")
    /\ given[1].fmt = "csv" /\ paused /\ timers = {}
    /\ Len(word_bank) = 1 /\ word_var = word_bank[1].word
    /\ words_file = DumpWords(word_bank)

\* ------------------------------------------------------------------ C19
PanelHandlers == {"_save_settings", "_save_words", "_import_words", "_export"}

\* C19: no file error of a settings-panel operation leaves its handler: when
\* a handler of the panel has run, no exception is left uncaught, and a file
\* that could not be imported has been answered with an error message.
C19_Original ==
    op \in PanelHandlers =>
        /\ raised = None
        /\ (loaded # None /\ loaded[1].kind = "raise") =>
               ran = <<"showerror">>

\* ------------------------------------------------------------------ C21
\* The steps driven by the timer, the pause button and the settings save.
CycleSteps == {"tick", "timer", "pause", "resume", "_save_settings"}

\* C21: shuffling reorders the display list only.  Every timer-driven step,
\* pause, resume and update_config (here called by the settings save, with
\* any outcome of writing config.json) leaves the word bank, in its order,
\* and the content of words.json as they were, and the display list holds
\* the entries of the bank.
C21_BankKept ==
    [][op' \in CycleSteps =>
          /\ word_bank' = word_bank
          /\ words_file' = words_file
          /\ SameEntries(words', word_bank')]_vars

\* the timer wrapped the index around and reshuffled: the display list is
\* in another order than the bank, which words.json still holds
C21_Witness ==
    /\ op = "timer" /\ Has(ran, "shuffle") /\ current_index = 0
    /\ words # word_bank
    /\ words_file = DumpWords(word_bank)

\* ------------------------------------------------------------------ C22
\* C22: an import whose file was loaded but could not be written to
\* words.json is rolled back: the word bank is the one that was active
\* before the import (not empty, without the unsaved edits of the settings
\* list), the display list holds its entries, and the settings list shows
\* what it showed before.
C22_Original ==
    [][(op' = "_import_words" /\ loaded' # None /\ loaded'[1].kind = "list"
          /\ Has(ran', "showerror"))
       => /\ word_bank' = word_bank
          /\ SameEntries(words', word_bank)
          /\ word_bank' # <<>> /\ words' # <<>>
          /\ words_data' = words_data]_vars

\* ------------------------------------------------------------------ C23
\* C23: between event handlers a paused app has no timer armed, and an app
\* that is not paused and has a non-empty display list has exactly one timer
\* armed, the one current_job names, with display_meaning or advance_word
\* as the stored callback: whatever pause, resume, update_config, set_words
\* and timer expirations came before, the cycle is not stalled.
C23_Scheduler ==
    /\ paused => (timers = {} /\ current_job = None)
    /\ (~paused /\ words # <<>>) =>
          /\ Cardinality(timers) = 1
          /\ current_job # None
          /\ \A t \in timers : t.id = current_job[1]
          /\ job_callback \in {Some("display_meaning"), Some("advance_word")}

\* resume() found the remaining time used up, called the stored
\* display_meaning itself, and the timer of the next phase is armed
C23_Witness ==
    /\ op = "resume" /\ ~paused /\ Has(ran, "display_meaning")
    /\ Cardinality(timers) = 1 /\ job_callback = Some("advance_word")

\* ------------------------------------------------------------------ C24
\* C24: while the display list is non-empty, between event handlers
\* current_index is within the list, the word shown is that of
\* words[current_index], and reading and meaning are both blank while
\* display_meaning is the pending callback and both those of
\* words[current_index] while advance_word is: no reading or meaning of
\* another entry stands beside the word.  display_meaning only runs on a
\* non-empty list with the index inside it.
C24_Display ==
    /\ [](words # <<>> =>
            /\ current_index \in 0..(Len(words) - 1)
            /\ word_var = words[current_index + 1].word
            /\ job_callback \in {Some("display_meaning"),
                                 Some("advance_word")}
            /\ job_callback = Some("display_meaning") =>
                   (reading_var = "" /\ meaning_var = "")
            /\ job_callback = Some("advance_word") =>
                   /\ reading_var = words[current_index + 1].reading
                   /\ meaning_var = words[current_index + 1].meaning)
    /\ [][Has(ran', "display_meaning") =>
             /\ words # <<>> /\ words' = words
             /\ current_index \in 0..(Len(words) - 1)
             /\ current_index' = current_index
             /\ ~Has(ran', "IndexError")]_vars

\* the timer wrapped around and reshuffled a list of two words into the
\* other order; the word shown is the first of the new order
C24_Witness ==
    /\ op = "timer" /\ Has(ran, "shuffle") /\ Len(words) = 2
    /\ words # word_bank /\ current_index = 0
    /\ word_var = words[1].word /\ word_var # word_bank[1].word
    /\ reading_var = ""

\* ------------------------------------------------------------------ C25
\* what the app holds and words.json: all but the working copy
appvars ==
    <<config_data, config_file, word_bank, words, current_index, word_var,
      reading_var, meaning_var, paused, pause_button, current_job,
      job_callback, remaining_ms, job_end_time, timers, words_file>>

\* add, edit and delete change the working copy and nothing else
C25_EditsLocal ==
    [][op' \in {"_add_word", "_edit_word", "_delete_word"} =>
          /\ UNCHANGED appvars
          /\ words_data' # None
          /\ raised' = None]_vars

\* the bank and the entries of the display list change only in a word-list
\* save or an import that succeeded, words.json only where one of the two
\* writes it (a write that fails may leave the file cut short)
C25_UntilSaved ==
    /\ [][(word_bank' # word_bank \/ ~SameEntries(words', words))
          => (op' \in {"_save_words", "_import_words"}
                /\ Has(ran', "showinfo"))]_vars
    /\ [][words_file' # words_file
          => (op' \in {"_save_words", "_import_words"}
                /\ Has(ran', "save_words"))]_vars

\* a save of a working copy without a complete entry is refused
C25_Refused ==
    [][(op' = "_save_words" /\ SelectSeq(words_data[1], FullEntry) = <<>>)
       => /\ ran' = <<"showerror">>
          /\ UNCHANGED progvars]_vars

\* C25: add, edit and delete in the settings word list change only the
\* working copy; the word bank, the display list, current_index, the
\* pending timer and words.json stay as they are until a word-list save or
\* an import succeeds; and a word-list save of a working copy without an
\* entry of three non-empty trimmed fields is refused and changes nothing.
C25_Original == C25_EditsLocal /\ C25_UntilSaved /\ C25_Refused
====
